---- MODULE Spec2Model ----
(***************************************************************************)
(* Model of the board bring-up in src/setup.c: setup() and the five static *)
(* functions it calls, statement by statement, over an abstract view of    *)
(* the RCC, GPIO, TIM8/TIM11 and SysTick registers, plus the two public    *)
(* SysTick interrupt switches.                                             *)
(***************************************************************************)
EXTENDS Integers, Sequences, FiniteSets, TLC

\* ---------------------------------------------------------------- bounds
MaxPolls == 2    \* counted polls of the PLL ready flag
MaxTicks == 2    \* counted SysTick interrupts

\* ------------------------------------------------------------- constants
HSI_FREQUENCY_HZ == 16000000
AHB_MAX_HZ == 180000000
APB1_MAX_HZ == 42000000
APB2_MAX_HZ == 84000000
DRIVER_TICK_HZ == 24000000
STK_RVR_RELOAD == 16777215

\* Values the macros of setup.h may have (the header fixes one of each).
DriverPwmPeriods == {1000, 1024}
SpeakerBaseFrequencies == {1000000, 2000000}
SystickFrequencies == {1000}
SysclkFrequencies == {168000000}

GpioPorts == {"GPIOA", "GPIOB", "GPIOC"}
Timers == {"TIM8", "TIM11"}
Channels == 1..4
Pins == 0..15

VARIABLES
    pc,         \* [call, stmt]: position inside setup()
    setup_h,    \* the macros of setup.h used by setup.c
    rcc,        \* clock tree: PLL, prescalers, frequency globals, clock gates
    dwt,        \* cycle counter enabled
    gpio,       \* per port, per pin: mode, pupd, af, odr
    tim,        \* per timer: the registers setup.c writes
    stk,        \* SysTick: reload, clksource, enable, tickint
    polls,      \* polls of the PLL ready flag so far
    ticks,      \* SysTick interrupts taken so far
    lastCall,   \* most recent of enable/disable_systick_interruption
    started,    \* setup functions entered, in order
    finished,   \* setup functions returned, in order
    cfgWrites   \* clock-gated peripherals that received a configuration write

vars == <<pc, setup_h, rcc, dwt, gpio, tim, stk, polls, ticks, lastCall,
          started, finished, cfgWrites>>

\* ------------------------------------------------------------ clock plan
\* Variant: the 120 MHz row of the table is passed instead.
rcc_clock_120mhz ==
    [pllm |-> 16, plln |-> 240, pllp |-> 2, hpre |-> 1, ppre1 |-> 4,
     ppre2 |-> 2, ahb_frequency |-> 120000000, apb1_frequency |-> 30000000,
     apb2_frequency |-> 60000000]

\* rcc_hse_16mhz_3v3[RCC_CLOCK_3V3_168MHZ]
rcc_clock_168mhz ==
    [pllm |-> 16, plln |-> 336, pllp |-> 2, hpre |-> 1, ppre1 |-> 4,
     ppre2 |-> 2, ahb_frequency |-> 168000000, apb1_frequency |-> 42000000,
     apb2_frequency |-> 84000000]

\* Frequencies the clock tree produces from the programmed dividers.
Sysclk(r) == IF r.sw = "PLL"
             THEN ((HSI_FREQUENCY_HZ \div r.pllm) * r.plln) \div r.pllp
             ELSE HSI_FREQUENCY_HZ
Ahb(r) == Sysclk(r) \div r.hpre
Apb1(r) == Ahb(r) \div r.ppre1
Apb2(r) == Ahb(r) \div r.ppre2

\* ------------------------------------------------------------ reset state
GpioResetMode(port, pin) ==
    IF (port = "GPIOA" /\ pin \in {13, 14, 15}) \/ (port = "GPIOB" /\ pin \in {3, 4})
    THEN "af" ELSE "input"

GpioReset ==
    [port \in GpioPorts |->
        [pin \in Pins |->
            [mode |-> GpioResetMode(port, pin), pupd |-> "none", af |-> 0, odr |-> 0]]]

TimReset ==
    [t \in Timers |->
        [ckd |-> "ck_int", cms |-> "edge", dir |-> "up", psc |-> 0, rcr |-> 0,
         arpe |-> FALSE, opm |-> FALSE, arr |-> 65535,
         ocm |-> [c \in Channels |-> "frozen"],
         ccr |-> [c \in Channels |-> 0],
         cce |-> [c \in Channels |-> FALSE],
         moe |-> FALSE, cen |-> FALSE]]

RccReset ==
    [pll |-> "off", sw |-> "HSI", pllm |-> 16, plln |-> 192, pllp |-> 2,
     hpre |-> 1, ppre1 |-> 1, ppre2 |-> 1,
     ahb_frequency |-> 16000000, apb1_frequency |-> 16000000,
     apb2_frequency |-> 16000000, enabled |-> {}]

StkReset == [reload |-> 0, clksource |-> "ahb_div8", enable |-> FALSE, tickint |-> FALSE]

\* --------------------------------------------------------------- programs
Stmt(f, p, a) == [f |-> f, periph |-> p, args |-> a]

\* Variant: the clock of TIM11 is not enabled.
setup_clock_without_tim11 ==
    << Stmt("rcc_clock_setup_hsi_3v3", "RCC", <<rcc_clock_168mhz>>),
       Stmt("rcc_periph_clock_enable", "RCC", <<"GPIOA">>),
       Stmt("rcc_periph_clock_enable", "RCC", <<"GPIOB">>),
       Stmt("rcc_periph_clock_enable", "RCC", <<"GPIOC">>),
       Stmt("rcc_periph_clock_enable", "RCC", <<"TIM8">>),
       Stmt("dwt_enable_cycle_counter", "DWT", <<>>) >>

setup_clock ==
    << Stmt("rcc_clock_setup_hsi_3v3", "RCC", <<rcc_clock_168mhz>>),
       Stmt("rcc_periph_clock_enable", "RCC", <<"GPIOA">>),
       Stmt("rcc_periph_clock_enable", "RCC", <<"GPIOB">>),
       Stmt("rcc_periph_clock_enable", "RCC", <<"GPIOC">>),
       Stmt("rcc_periph_clock_enable", "RCC", <<"TIM8">>),
       Stmt("rcc_periph_clock_enable", "RCC", <<"TIM11">>),
       Stmt("dwt_enable_cycle_counter", "DWT", <<>>) >>

\* Variant: the interrupt is enabled together with the counter.
setup_systick_with_interrupt ==
    << Stmt("systick_set_frequency", "STK",
            <<setup_h.SYSTICK_FREQUENCY_HZ, setup_h.SYSCLK_FREQUENCY_HZ>>),
       Stmt("systick_interrupt_enable", "STK", <<>>),
       Stmt("systick_counter_enable", "STK", <<>>) >>

setup_systick ==
    << Stmt("systick_set_frequency", "STK",
            <<setup_h.SYSTICK_FREQUENCY_HZ, setup_h.SYSCLK_FREQUENCY_HZ>>),
       Stmt("systick_counter_enable", "STK", <<>>) >>

setup_gpio ==
    << Stmt("gpio_mode_setup", "GPIOA", <<"output", "none", {0, 1, 2, 3}>>),
       Stmt("gpio_clear", "GPIOA", <<{0, 1, 2, 3}>>),
       Stmt("gpio_mode_setup", "GPIOB", <<"af", "none", {9}>>),
       Stmt("gpio_set_af", "GPIOB", <<3, {9}>>),
       Stmt("gpio_mode_setup", "GPIOC", <<"af", "none", {6, 7, 8, 9}>>),
       Stmt("gpio_set_af", "GPIOC", <<3, {6, 7, 8, 9}>>) >>

\* Variant: the prescaler is computed from the APB1 clock.
driver_prescaler_from_apb1 == (rcc.apb1_frequency \div DRIVER_TICK_HZ) - 1

\* rcc_apb2_frequency / 24000000 - 1
driver_prescaler == (rcc.apb2_frequency \div DRIVER_TICK_HZ) - 1

\* Variant: the output of channel 3 is enabled twice, that of channel 4 never.
setup_motor_driver_oc3_twice ==
    << Stmt("timer_set_mode", "TIM8", <<"ck_int", "edge", "up">>),
       Stmt("timer_set_prescaler", "TIM8", <<driver_prescaler>>),
       Stmt("timer_set_repetition_counter", "TIM8", <<0>>),
       Stmt("timer_enable_preload", "TIM8", <<>>),
       Stmt("timer_continuous_mode", "TIM8", <<>>),
       Stmt("timer_set_period", "TIM8", <<setup_h.DRIVER_PWM_PERIOD>>),
       Stmt("timer_set_oc_mode", "TIM8", <<1, "pwm1">>),
       Stmt("timer_set_oc_mode", "TIM8", <<2, "pwm1">>),
       Stmt("timer_set_oc_mode", "TIM8", <<3, "pwm1">>),
       Stmt("timer_set_oc_mode", "TIM8", <<4, "pwm1">>),
       Stmt("timer_set_oc_value", "TIM8", <<1, 0>>),
       Stmt("timer_set_oc_value", "TIM8", <<2, 0>>),
       Stmt("timer_set_oc_value", "TIM8", <<3, 0>>),
       Stmt("timer_set_oc_value", "TIM8", <<4, 0>>),
       Stmt("timer_enable_oc_output", "TIM8", <<1>>),
       Stmt("timer_enable_oc_output", "TIM8", <<2>>),
       Stmt("timer_enable_oc_output", "TIM8", <<3>>),
       Stmt("timer_enable_oc_output", "TIM8", <<3>>),
       Stmt("timer_enable_break_main_output", "TIM8", <<>>),
       Stmt("timer_enable_counter", "TIM8", <<>>) >>

setup_motor_driver ==
    << Stmt("timer_set_mode", "TIM8", <<"ck_int", "edge", "up">>),
       Stmt("timer_set_prescaler", "TIM8", <<driver_prescaler>>),
       Stmt("timer_set_repetition_counter", "TIM8", <<0>>),
       Stmt("timer_enable_preload", "TIM8", <<>>),
       Stmt("timer_continuous_mode", "TIM8", <<>>),
       Stmt("timer_set_period", "TIM8", <<setup_h.DRIVER_PWM_PERIOD>>),
       Stmt("timer_set_oc_mode", "TIM8", <<1, "pwm1">>),
       Stmt("timer_set_oc_mode", "TIM8", <<2, "pwm1">>),
       Stmt("timer_set_oc_mode", "TIM8", <<3, "pwm1">>),
       Stmt("timer_set_oc_mode", "TIM8", <<4, "pwm1">>),
       Stmt("timer_set_oc_value", "TIM8", <<1, 0>>),
       Stmt("timer_set_oc_value", "TIM8", <<2, 0>>),
       Stmt("timer_set_oc_value", "TIM8", <<3, 0>>),
       Stmt("timer_set_oc_value", "TIM8", <<4, 0>>),
       Stmt("timer_enable_oc_output", "TIM8", <<1>>),
       Stmt("timer_enable_oc_output", "TIM8", <<2>>),
       Stmt("timer_enable_oc_output", "TIM8", <<3>>),
       Stmt("timer_enable_oc_output", "TIM8", <<4>>),
       Stmt("timer_enable_break_main_output", "TIM8", <<>>),
       Stmt("timer_enable_counter", "TIM8", <<>>) >>

\* Variant: the channel output is enabled where the code disables it.
setup_speaker_output_enabled ==
    << Stmt("timer_set_mode", "TIM11", <<"ck_int", "edge", "up">>),
       Stmt("timer_set_prescaler", "TIM11",
            <<(rcc.apb2_frequency \div setup_h.SPEAKER_BASE_FREQUENCY_HZ) - 1>>),
       Stmt("timer_set_repetition_counter", "TIM11", <<0>>),
       Stmt("timer_enable_preload", "TIM11", <<>>),
       Stmt("timer_continuous_mode", "TIM11", <<>>),
       Stmt("timer_enable_oc_output", "TIM11", <<1>>),
       Stmt("timer_set_oc_mode", "TIM11", <<1, "pwm1">>),
       Stmt("timer_enable_break_main_output", "TIM11", <<>>) >>

\* Variant: the counter is started at the end, as setup_motor_driver does.
setup_speaker_counter_started ==
    << Stmt("timer_set_mode", "TIM11", <<"ck_int", "edge", "up">>),
       Stmt("timer_set_prescaler", "TIM11",
            <<(rcc.apb2_frequency \div setup_h.SPEAKER_BASE_FREQUENCY_HZ) - 1>>),
       Stmt("timer_set_repetition_counter", "TIM11", <<0>>),
       Stmt("timer_enable_preload", "TIM11", <<>>),
       Stmt("timer_continuous_mode", "TIM11", <<>>),
       Stmt("timer_disable_oc_output", "TIM11", <<1>>),
       Stmt("timer_set_oc_mode", "TIM11", <<1, "pwm1">>),
       Stmt("timer_enable_break_main_output", "TIM11", <<>>),
       Stmt("timer_enable_counter", "TIM11", <<>>) >>

setup_speaker ==
    << Stmt("timer_set_mode", "TIM11", <<"ck_int", "edge", "up">>),
       Stmt("timer_set_prescaler", "TIM11",
            <<(rcc.apb2_frequency \div setup_h.SPEAKER_BASE_FREQUENCY_HZ) - 1>>),
       Stmt("timer_set_repetition_counter", "TIM11", <<0>>),
       Stmt("timer_enable_preload", "TIM11", <<>>),
       Stmt("timer_continuous_mode", "TIM11", <<>>),
       Stmt("timer_disable_oc_output", "TIM11", <<1>>),
       Stmt("timer_set_oc_mode", "TIM11", <<1, "pwm1">>),
       Stmt("timer_enable_break_main_output", "TIM11", <<>>) >>

\* Variant: the motor driver is set up before the speaker.
setup_motor_before_speaker ==
    <<"setup_clock", "setup_gpio", "setup_motor_driver", "setup_speaker",
      "setup_systick">>

\* The calls of setup(), in program order.
setup ==
    <<"setup_clock", "setup_gpio", "setup_speaker", "setup_motor_driver",
      "setup_systick">>

Body(fn) ==
    CASE fn = "setup_clock" -> setup_clock
      [] fn = "setup_gpio" -> setup_gpio
      [] fn = "setup_speaker" -> setup_speaker
      [] fn = "setup_motor_driver" -> setup_motor_driver
      [] fn = "setup_systick" -> setup_systick

NotCalled == 0
Returned == Len(setup) + 1
InSetup == pc.call \in 1..Len(setup)
CurrentFn == setup[pc.call]
CurrentStmt == Body(CurrentFn)[pc.stmt]
AtDone == pc.call = Returned

\* ---------------------------------------------------- library call effects
U16(n) == n % 65536

\* systick_set_frequency(freq, ahb): reload and clock source.
SystickSetFrequency(s, freq, ahb) ==
    LET ratio == ahb \div freq IN
    IF ratio >= STK_RVR_RELOAD * 8 THEN s
    ELSE IF ratio >= STK_RVR_RELOAD
         THEN [s EXCEPT !.clksource = "ahb_div8", !.reload = (ratio \div 8) - 1]
         ELSE [s EXCEPT !.clksource = "ahb", !.reload = ratio - 1]

RccEffect(s) ==
    CASE s.f = "rcc_clock_setup_hsi_3v3" ->
            LET c == s.args[1] IN
            [rcc EXCEPT !.sw = "PLL", !.pllm = c.pllm, !.plln = c.plln,
                        !.pllp = c.pllp, !.hpre = c.hpre, !.ppre1 = c.ppre1,
                        !.ppre2 = c.ppre2,
                        !.ahb_frequency = c.ahb_frequency,
                        !.apb1_frequency = c.apb1_frequency,
                        !.apb2_frequency = c.apb2_frequency]
      [] s.f = "rcc_periph_clock_enable" ->
            [rcc EXCEPT !.enabled = @ \cup {s.args[1]}]
      [] OTHER -> rcc

DwtEffect(s) == IF s.f = "dwt_enable_cycle_counter" THEN TRUE ELSE dwt

GpioPortEffect(s, g) ==
    CASE s.f = "gpio_mode_setup" ->
            [pin \in Pins |->
                IF pin \in s.args[3]
                THEN [g[pin] EXCEPT !.mode = s.args[1], !.pupd = s.args[2]]
                ELSE g[pin]]
      [] s.f = "gpio_clear" ->
            [pin \in Pins |->
                IF pin \in s.args[1] THEN [g[pin] EXCEPT !.odr = 0] ELSE g[pin]]
      [] s.f = "gpio_set_af" ->
            [pin \in Pins |->
                IF pin \in s.args[2] THEN [g[pin] EXCEPT !.af = s.args[1]] ELSE g[pin]]
      [] OTHER -> g

GpioEffect(s) ==
    IF s.periph \in GpioPorts
    THEN [gpio EXCEPT ![s.periph] = GpioPortEffect(s, @)]
    ELSE gpio

TimerEffect(s, t) ==
    CASE s.f = "timer_set_mode" ->
            [t EXCEPT !.ckd = s.args[1], !.cms = s.args[2], !.dir = s.args[3]]
      [] s.f = "timer_set_prescaler" -> [t EXCEPT !.psc = U16(s.args[1])]
      [] s.f = "timer_set_repetition_counter" -> [t EXCEPT !.rcr = s.args[1]]
      [] s.f = "timer_enable_preload" -> [t EXCEPT !.arpe = TRUE]
      [] s.f = "timer_continuous_mode" -> [t EXCEPT !.opm = FALSE]
      [] s.f = "timer_set_period" -> [t EXCEPT !.arr = U16(s.args[1])]
      [] s.f = "timer_set_oc_mode" -> [t EXCEPT !.ocm[s.args[1]] = s.args[2]]
      [] s.f = "timer_set_oc_value" -> [t EXCEPT !.ccr[s.args[1]] = U16(s.args[2])]
      [] s.f = "timer_enable_oc_output" -> [t EXCEPT !.cce[s.args[1]] = TRUE]
      [] s.f = "timer_disable_oc_output" -> [t EXCEPT !.cce[s.args[1]] = FALSE]
      [] s.f = "timer_enable_break_main_output" -> [t EXCEPT !.moe = TRUE]
      [] s.f = "timer_enable_counter" -> [t EXCEPT !.cen = TRUE]
      [] OTHER -> t

TimEffect(s) ==
    IF s.periph \in Timers
    THEN [tim EXCEPT ![s.periph] = TimerEffect(s, @)]
    ELSE tim

StkEffect(s) ==
    CASE s.f = "systick_set_frequency" -> SystickSetFrequency(stk, s.args[1], s.args[2])
      [] s.f = "systick_counter_enable" -> [stk EXCEPT !.enable = TRUE]
      [] s.f = "systick_interrupt_enable" -> [stk EXCEPT !.tickint = TRUE]
      [] s.f = "systick_interrupt_disable" -> [stk EXCEPT !.tickint = FALSE]
      [] OTHER -> stk

\* ------------------------------------------------------------------- Init
Init ==
    /\ pc = [call |-> NotCalled, stmt |-> 0]
    /\ setup_h \in [DRIVER_PWM_PERIOD : DriverPwmPeriods,
                    SPEAKER_BASE_FREQUENCY_HZ : SpeakerBaseFrequencies,
                    SYSTICK_FREQUENCY_HZ : SystickFrequencies,
                    SYSCLK_FREQUENCY_HZ : SysclkFrequencies]
    /\ rcc = RccReset
    /\ dwt = FALSE
    /\ gpio = GpioReset
    /\ tim = TimReset
    /\ stk = StkReset
    /\ polls = 0
    /\ ticks = 0
    /\ lastCall = "none"
    /\ started = <<>>
    /\ finished = <<>>
    /\ cfgWrites = {}

\* ---------------------------------------------------------------- actions
\* main() calls setup().
CallSetup ==
    /\ pc.call = NotCalled
    /\ pc' = [call |-> 1, stmt |-> 1]
    /\ started' = Append(started, setup[1])
    /\ UNCHANGED <<setup_h, rcc, dwt, gpio, tim, stk, polls, ticks, lastCall,
                   finished, cfgWrites>>

\* Move past the current statement; the last statement of a function returns
\* into setup(), which calls the next function or returns itself.
Advance ==
    IF pc.stmt < Len(Body(CurrentFn))
    THEN /\ pc' = [pc EXCEPT !.stmt = @ + 1]
         /\ UNCHANGED <<started, finished>>
    ELSE /\ pc' = [call |-> pc.call + 1, stmt |-> 1]
         /\ finished' = Append(finished, CurrentFn)
         /\ started' = IF pc.call < Len(setup)
                       THEN Append(started, setup[pc.call + 1])
                       ELSE started

\* Execute the current statement of function fn.
RunStmt(fn) ==
    /\ InSetup
    /\ CurrentFn = fn
    /\ CurrentStmt.f # "rcc_clock_setup_hsi_3v3"
    /\ rcc' = RccEffect(CurrentStmt)
    /\ dwt' = DwtEffect(CurrentStmt)
    /\ gpio' = GpioEffect(CurrentStmt)
    /\ tim' = TimEffect(CurrentStmt)
    /\ stk' = StkEffect(CurrentStmt)
    /\ cfgWrites' = IF CurrentStmt.periph \in GpioPorts \cup Timers
                    THEN cfgWrites \cup {CurrentStmt.periph}
                    ELSE cfgWrites
    /\ Advance
    /\ UNCHANGED <<setup_h, polls, ticks, lastCall>>

AtClockSetup ==
    /\ InSetup
    /\ CurrentStmt.f = "rcc_clock_setup_hsi_3v3"

\* rcc_clock_setup_hsi_3v3: program the PLL and switch it on.
rcc_pll_on ==
    /\ AtClockSetup
    /\ rcc.pll = "off"
    /\ rcc' = [rcc EXCEPT !.pll = "locking"]
    /\ UNCHANGED <<pc, setup_h, dwt, gpio, tim, stk, polls, ticks, lastCall,
                   started, finished, cfgWrites>>

\* rcc_clock_setup_hsi_3v3: the ready flag is polled and read as not set;
\* the loop has no exit but the flag. The polls are counted up to MaxPolls;
\* the loop goes on past that, with nothing left that changes.
rcc_wait_for_osc_ready ==
    /\ AtClockSetup
    /\ rcc.pll = "locking"
    /\ polls' = IF polls < MaxPolls THEN polls + 1 ELSE polls
    /\ UNCHANGED <<pc, setup_h, rcc, dwt, gpio, tim, stk, ticks, lastCall,
                   started, finished, cfgWrites>>

\* rcc_clock_setup_hsi_3v3: the flag is read as set; switch SYSCLK to the
\* PLL and record the bus frequencies.
rcc_clock_setup_hsi_3v3 ==
    /\ AtClockSetup
    /\ rcc.pll = "ready"
    /\ rcc' = RccEffect(CurrentStmt)
    /\ Advance
    /\ UNCHANGED <<setup_h, dwt, gpio, tim, stk, polls, ticks, lastCall, cfgWrites>>

\* Hardware: the PLL locks. Nothing obliges it to.
PllLocks ==
    /\ rcc.pll = "locking"
    /\ rcc' = [rcc EXCEPT !.pll = "ready"]
    /\ UNCHANGED <<pc, setup_h, dwt, gpio, tim, stk, polls, ticks, lastCall,
                   started, finished, cfgWrites>>

step_setup_clock == RunStmt("setup_clock")
step_setup_gpio == RunStmt("setup_gpio")
step_setup_speaker == RunStmt("setup_speaker")
step_setup_motor_driver == RunStmt("setup_motor_driver")
step_setup_systick == RunStmt("setup_systick")

\* The foreground program calls the switches before or after setup().
Foreground == pc.call = NotCalled \/ AtDone

enable_systick_interruption ==
    /\ Foreground
    /\ stk' = StkEffect(Stmt("systick_interrupt_enable", "STK", <<>>))
    /\ lastCall' = "enable"
    /\ UNCHANGED <<pc, setup_h, rcc, dwt, gpio, tim, polls, ticks, started,
                   finished, cfgWrites>>

\* Variant: the counter is stopped instead of the interrupt masked.
disable_systick_interruption_stops_counter ==
    /\ Foreground
    /\ stk' = [stk EXCEPT !.enable = FALSE]
    /\ lastCall' = "disable"
    /\ UNCHANGED <<pc, setup_h, rcc, dwt, gpio, tim, polls, ticks, started,
                   finished, cfgWrites>>

disable_systick_interruption ==
    /\ Foreground
    /\ stk' = StkEffect(Stmt("systick_interrupt_disable", "STK", <<>>))
    /\ lastCall' = "disable"
    /\ UNCHANGED <<pc, setup_h, rcc, dwt, gpio, tim, polls, ticks, started,
                   finished, cfgWrites>>

\* Hardware: SysTick raises its interrupt when it counts and the interrupt
\* is enabled.
SysTickInterrupt ==
    /\ stk.enable
    /\ stk.tickint
    /\ ticks < MaxTicks
    /\ ticks' = ticks + 1
    /\ UNCHANGED <<pc, setup_h, rcc, dwt, gpio, tim, stk, polls, lastCall,
                   started, finished, cfgWrites>>

SetupStep ==
    \/ CallSetup
    \/ rcc_pll_on
    \/ rcc_wait_for_osc_ready
    \/ rcc_clock_setup_hsi_3v3
    \/ step_setup_clock
    \/ step_setup_gpio
    \/ step_setup_speaker
    \/ step_setup_motor_driver
    \/ step_setup_systick

Next ==
    \/ CallSetup
    \/ rcc_pll_on
    \/ rcc_wait_for_osc_ready
    \/ rcc_clock_setup_hsi_3v3
    \/ PllLocks
    \/ step_setup_clock
    \/ step_setup_gpio
    \/ step_setup_speaker
    \/ step_setup_motor_driver
    \/ step_setup_systick
    \/ enable_systick_interruption
    \/ disable_systick_interruption
    \/ SysTickInterrupt

Spec == Init /\ [][Next]_vars

\* The processor keeps executing setup() while it has a next step.
FairSpec == Init /\ [][Next]_vars /\ WF_vars(SetupStep)

\* ----------------------------------------------------------------- claims
IsPrefix(s, t) == Len(s) <= Len(t) /\ SubSeq(t, 1, Len(s)) = s

BringUpOrder ==
    <<"setup_clock", "setup_gpio", "setup_speaker", "setup_motor_driver",
      "setup_systick">>

\* C1: one call of setup() runs setup_clock, setup_gpio, setup_speaker,
\* setup_motor_driver and setup_systick once each, in this order, and none
\* of them begins before the one before it has returned.
C1_BringUpOrder ==
    /\ IsPrefix(started, BringUpOrder)
    /\ IsPrefix(finished, BringUpOrder)
    /\ Len(finished) <= Len(started)
    /\ Len(started) <= Len(finished) + 1
    /\ (pc.call = NotCalled => started = <<>>)
    /\ (AtDone => started = BringUpOrder /\ finished = BringUpOrder)

C1_Witness == AtDone /\ finished = BringUpOrder /\ ticks = 0 /\ lastCall = "none"

\* C2: every GPIO bank and timer that has received a configuration write
\* has its peripheral clock enabled, and had it before the write (no step
\* both writes a peripheral and enables a clock); after setup() all five
\* peripherals are configured and clocked.
C2_ClockBeforeWrite ==
    /\ cfgWrites \subseteq rcc.enabled
    /\ (AtDone => cfgWrites = GpioPorts \cup Timers)

C2_Witness == AtDone /\ cfgWrites = {"GPIOA", "GPIOB", "GPIOC", "TIM8", "TIM11"}

\* C3: once setup() has completed, TIM8 counts up, edge-aligned, with period
\* DRIVER_PWM_PERIOD; each of its four channels is in PWM1 mode with compare
\* value 0 and output enabled; the main output is enabled and the counter runs.
C3_MotorTimerReady ==
    AtDone =>
        /\ tim["TIM8"].cms = "edge"
        /\ tim["TIM8"].dir = "up"
        /\ tim["TIM8"].arr = setup_h.DRIVER_PWM_PERIOD
        /\ \A c \in Channels :
              /\ tim["TIM8"].ocm[c] = "pwm1"
              /\ tim["TIM8"].ccr[c] = 0
              /\ tim["TIM8"].cce[c]
        /\ tim["TIM8"].moe
        /\ tim["TIM8"].cen

C3_Witness == AtDone /\ tim["TIM8"].cen /\ tim["TIM8"].cce[4] /\ lastCall = "disable"

\* C4: from the return of setup_speaker on (through setup_motor_driver,
\* setup_systick and every later enable/disable call) the output of TIM11
\* channel 1 is disabled.
C4_SpeakerSilent ==
    Len(finished) >= 3 => ~tim["TIM11"].cce[1]

C4_Witness == AtDone /\ lastCall = "enable" /\ ticks = MaxTicks /\ ~tim["TIM11"].cce[1]

\* C5 as stated: once setup() has completed, the counters of TIM8 and of
\* TIM11 are both running.
C5_BothCountersRun ==
    AtDone => tim["TIM8"].cen /\ tim["TIM11"].cen

\* C5 amended: once setup() has completed, the counter of TIM8 is running
\* and the counter of TIM11 is not; the TIM11 channel output is disabled.
C5_OnlyMotorCounterRuns ==
    AtDone => tim["TIM8"].cen /\ ~tim["TIM11"].cen /\ ~tim["TIM11"].cce[1]

C5_Witness == AtDone /\ tim["TIM8"].cen /\ ~tim["TIM11"].cen /\ tim["TIM11"].moe

ClockPlanFields(r) ==
    <<r.sw, r.pllm, r.plln, r.pllp, r.hpre, r.ppre1, r.ppre2,
      r.ahb_frequency, r.apb1_frequency, r.apb2_frequency>>

\* setup_clock has returned.
ClockPlanApplied == Len(finished) >= 1

C6_PlanValues ==
    ClockPlanApplied =>
        /\ Sysclk(rcc) = 168000000
        /\ Ahb(rcc) = 168000000 /\ rcc.ahb_frequency = 168000000
        /\ Apb1(rcc) = 42000000 /\ rcc.apb1_frequency = 42000000
        /\ Apb2(rcc) = 84000000 /\ rcc.apb2_frequency = 84000000
        /\ Ahb(rcc) <= AHB_MAX_HZ
        /\ Apb1(rcc) <= APB1_MAX_HZ
        /\ Apb2(rcc) <= APB2_MAX_HZ

\* C6: the plan setup_clock applies to the 16 MHz oscillator gives SYSCLK and
\* AHB 168 MHz, APB1 42 MHz, APB2 84 MHz, each within the ceiling of its bus,
\* and no step after it has been applied changes it.
C6_ClockPlan ==
    /\ []C6_PlanValues
    /\ [][ClockPlanApplied => ClockPlanFields(rcc') = ClockPlanFields(rcc)]_vars

C6_Witness == AtDone /\ rcc.apb2_frequency = 84000000 /\ Apb1(rcc) = 42000000

C8_SetupTerminates == <>AtDone

PeripheralConfig == <<rcc, dwt, gpio, tim, stk.reload, stk.clksource, stk.enable>>

\* C9: no step taken after setup() has returned (the enable and disable
\* calls, the interrupts they let through) changes the clock plan, a pin
\* binding, a timer register, or the SysTick frequency and counter enable.
C9_TickSwitchFrame ==
    [][AtDone => PeripheralConfig' = PeripheralConfig]_vars

C9_Witness == AtDone /\ lastCall = "disable" /\ ticks = MaxTicks /\ ~stk.tickint

C10_SystickStarted ==
    AtDone =>
        /\ stk.enable
        /\ stk.clksource = "ahb"
        /\ stk.reload = (setup_h.SYSCLK_FREQUENCY_HZ \div setup_h.SYSTICK_FREQUENCY_HZ) - 1

\* C10: setup() sets the SysTick frequency and starts its counter without
\* enabling its interrupt: the interrupt enable is set exactly when the most
\* recent call was enable_systick_interruption, and the interrupt is taken
\* only then.
C10_TickOnlyWhenEnabled ==
    /\ [](C10_SystickStarted /\ (stk.tickint <=> lastCall = "enable"))
    /\ [][ticks' # ticks => lastCall = "enable" /\ stk.enable]_vars

C10_Witness == AtDone /\ lastCall = "enable" /\ stk.tickint /\ ticks = 1

====
